---- MODULE Spec2Model ----
(***************************************************************************)
(* POMCP (pomdp_py/algorithms/pomcp.py): belief-carrying search tree,      *)
(* root transplant and particle reinvigoration.                            *)
(*                                                                         *)
(* Python objects are modelled with their identity: every Particles object *)
(* is a cell of `heap`, and a node or the agent holds the cell's id, so    *)
(* that `x.belief = y.belief` (a shared object) and                        *)
(* `x.belief = copy.deepcopy(y.belief)` (a new object) differ.             *)
(***************************************************************************)
EXTENDS Integers, Sequences, FiniteSets, TLC

\* ---- bounds of the model
MaxInit == 2      \* largest number of particles of the agent's initial belief
MaxSims == 3      \* simulations from an existing root between two real steps
MaxRounds == 2    \* real (action, observation) steps of an episode
MaxLen == 3       \* longest belief handed to a direct reinvigoration call
MaxTarget == 3    \* largest target of a direct reinvigoration call
MaxNodes == 2     \* nodes built directly with the node classes
MaxAdd == 1       \* longest belief a directly built node is added to

\* ---- planner parameters (POMCP.__init__); the planner is built with
\* max_depth = 1, so the tree holds the root and its observation children
max_depth == 1
num_visits_init == 1
value_init == 0

None == "None"
\* a belief object: a Particles instance with its list, or another representation
Particles(list) == [kind |-> "Particles", particles |-> list]
Histogram == [kind |-> "Histogram", particles |-> <<>>]
\* outcomes of a call that may raise
Raise(e) == [err |-> e, out |-> <<>>]
Return(v) == [err |-> None, out |-> v]
\* the outcome of the reinvigorator and the list of its argument after the call
Outcome(r, input) == [err |-> r.err, out |-> r.out, input |-> input]
Actions == {1}
Observations == {1, 2}
BaseStates == {1, 2}              \* states the generative model produces
Transforms == {None, "jitter"}    \* state_transform_func: absent, or s -> s + 2
\* a node's children: action -> num_visits of its action node, 0 for no action node
NoChildren == [a \in Actions |-> 0]
\* the None child slot / absent tree (no node object)
NoNode == [num_visits |-> 0, value |-> 0, belief |-> 0, children |-> NoChildren]
\* a node without the reference to its belief object
NodeStats(n) == [num_visits |-> n.num_visits, value |-> n.value, children |-> n.children]

SeqsUpTo(S, n) == UNION {[1..k -> S] : k \in 0..n}

\* paths of (action, observation) pairs from the root; a node has depth Len(path)
Steps == Actions \X Observations
Paths == SeqsUpTo(Steps, max_depth)

VARIABLES
    heap,           \* id -> belief object (Particles(list) | Histogram)
    agent_belief,   \* agent.belief: id of a belief object
    init_belief,    \* agent.init_belief (content, never changed)
    agent_history,  \* agent.history
    has_tree,       \* hasattr(agent, "tree")
    tree,           \* agent.tree: path -> node | NoNode; tree[<<>>] is the root
    root_history,   \* agent.tree.history
    pc,             \* position of the caller: idle, plan, acted, error
    sims,           \* simulations run since the last real step
    real,           \* the real (action, observation) the caller just appended
    last,           \* the last call: operation, outcome, reinvigoration in/out
    nodes           \* nodes a caller built with the node classes, outside the tree

vars == <<heap, agent_belief, init_belief, agent_history, has_tree, tree,
          root_history, pc, sims, real, last, nodes>>

\* ---- heap of Particles objects ------------------------------------------
Alloc(h) ==
    CHOOSE i \in 1..(Cardinality(DOMAIN h) + 1) :
        /\ i \notin DOMAIN h
        /\ \A j \in 1..(i - 1) : j \in DOMAIN h

Put(h, id, content) == [i \in (DOMAIN h) \cup {id} |-> IF i = id THEN content ELSE h[i]]

\* Object ids are addresses: only which references are equal matters. After a
\* call the objects nobody references are freed and the live ones are numbered
\* in the order agent.belief, the tree's nodes (in PathSeq order), then the two
\* objects the call record remembers.
PathKey(p) == IF Len(p) = 0 THEN 0
              ELSE IF Len(p) = 1 THEN 10 * p[1][1] + p[1][2]
              ELSE 1000 * p[1][1] + 100 * p[1][2] + 10 * p[2][1] + p[2][2]
PathSeq == [i \in 1..Cardinality(Paths) |->
              CHOOSE p \in Paths : Cardinality({q \in Paths : PathKey(q) < PathKey(p)}) = i - 1]

Refs(t, ab, sub, buffer) ==
    <<ab>> \o [i \in 1..Cardinality(Paths) |-> t[PathSeq[i]].belief] \o <<sub, buffer>>

Rename(refs, x) ==
    IF x = 0 THEN 0
    ELSE LET first == CHOOSE j \in 1..Len(refs) :
                         refs[j] = x /\ \A k \in 1..(j - 1) : refs[k] # x
         IN Cardinality({refs[k] : k \in 1..first} \ {0})

\* the heap, tree and references after freeing and renumbering
Collect(h, t, ab, sub, buffer) ==
    LET refs == Refs(t, ab, sub, buffer)
        live == ({ab} \cup {t[p].belief : p \in Paths}) \ {0}
    IN [heap |-> [n \in {Rename(refs, x) : x \in live} |->
                    h[CHOOSE x \in live : Rename(refs, x) = n]],
        tree |-> [p \in Paths |-> IF t[p] = NoNode THEN NoNode
                                  ELSE [t[p] EXCEPT !.belief = Rename(refs, @)]],
        belief |-> Rename(refs, ab),
        sub |-> Rename(refs, sub),
        buffer |-> Rename(refs, buffer)]

IsParticles(h, id) == h[id].kind = "Particles"     \* isinstance(belief, Particles)

\* what is reachable from agent.tree: every node's statistics and particles
Snapshot(h, t) ==
    [p \in Paths |-> [stats |-> NodeStats(t[p]),
                      particles |-> IF t[p] = NoNode THEN <<>> ELSE h[t[p].belief].particles]]

\* record of a call; the fields past `result` are filled by update and by a
\* direct reinvigoration: the reinvigorator's input, target, transform and
\* output, the belief object of the promoted subtree, the object the
\* reinvigorator returned, the old root's history, whether a simulation
\* deposited a particle, the reinvigorator's argument after the call, and the
\* outcome of a second reinvigoration of the first one's result, the
\* trajectory of a simulation, the promoted node before update, the branch of
\* lines 120-129 update took, and, for an update that raised ValueError, the
\* tree and the agent's particles before the call
NoCall(op, result) ==
    [op |-> op, result |-> result, particles |-> <<>>, num |-> 0, f |-> None,
     out |-> <<>>, sub |-> 0, buffer |-> 0, prehistory |-> <<>>, deposit |-> 0,
     input |-> <<>>, result2 |-> None, out2 |-> <<>>, traj |-> <<>>,
     subnode |-> NodeStats(NoNode), branch |-> None,
     pretree |-> Snapshot(<<>>, [p \in Paths |-> NoNode]), prebelief |-> <<>>]

\* ---- particle reinvigoration (POMCP._particle_reinvigoration) -----------
ApplyTransform(f, s) == IF f = None THEN s ELSE s + 2

\* mutant: the survivor is drawn from the growing copy, not from the input
RECURSIVE ReinvLoop_from_copy(_, _, _, _)
ReinvLoop_from_copy(new_particles, particles, num_particles, f) ==
    IF Len(new_particles) < num_particles
    THEN UNION { ReinvLoop_from_copy(
                     Append(new_particles, ApplyTransform(f, new_particles[i])),
                     particles, num_particles, f)
                 : i \in 1..Len(new_particles) }
    ELSE {Outcome(Return(new_particles), particles)}

\* mutant: the loop runs while len(new_particles) <= num_particles
RECURSIVE ReinvLoop_one_more(_, _, _, _)
ReinvLoop_one_more(new_particles, particles, num_particles, f) ==
    IF Len(new_particles) <= num_particles
    THEN UNION { ReinvLoop_one_more(
                     Append(new_particles, ApplyTransform(f, particles[i])),
                     particles, num_particles, f)
                 : i \in 1..Len(particles) }
    ELSE {Outcome(Return(new_particles), particles)}

\* mutant: the drawn state is not copied, so a transform that changes the state
\* it is handed changes the element of `particles`
RECURSIVE ReinvLoop_no_state_copy(_, _, _, _)
ReinvLoop_no_state_copy(new_particles, particles, num_particles, f) ==
    IF Len(new_particles) < num_particles
    THEN UNION { ReinvLoop_no_state_copy(
                     Append(new_particles, ApplyTransform(f, particles[i])),
                     [particles EXCEPT ![i] = ApplyTransform(f, @)], num_particles, f)
                 : i \in 1..Len(particles) }
    ELSE {Outcome(Return(new_particles), particles)}

\* lines 147-154. `particles` is the argument's list: the drawn state is copied
\* (line 149) before the transform gets it, and add() goes to new_particles, so
\* the list is passed on as it is.
RECURSIVE ReinvLoop(_, _, _, _)
ReinvLoop(new_particles, particles, num_particles, f) ==
    IF Len(new_particles) < num_particles
    THEN IF Len(particles) = 0
         THEN {Outcome(Raise("IndexError"), particles)}   \* random() on an empty list
         ELSE UNION { ReinvLoop(Append(new_particles, ApplyTransform(f, particles[i])),
                                particles, num_particles, f)
                      : i \in 1..Len(particles) }
    ELSE {Outcome(Return(new_particles), particles)}

\* mutant: a belief over the target is cut down to the target
particle_reinvigoration_downsample(particles, num_particles, f) ==
    LET new_particles == particles IN
    IF Len(new_particles) = 0
    THEN {Outcome(Raise("ValueError"), particles)}
    ELSE IF Len(new_particles) > num_particles
         THEN {Outcome(Return(SubSeq(new_particles, 1, num_particles)), particles)}
         ELSE ReinvLoop(new_particles, particles, num_particles, f)

\* mutant: the empty belief is not rejected
particle_reinvigoration_no_empty_check(particles, num_particles, f) ==
    LET new_particles == particles IN
    IF Len(new_particles) > num_particles
    THEN {Outcome(Return(new_particles), particles)}
    ELSE ReinvLoop(new_particles, particles, num_particles, f)

\* mutant: one particle is synthesized before the size is compared (do-while)
particle_reinvigoration_do_while(particles, num_particles, f) ==
    LET new_particles == particles IN
    IF Len(new_particles) = 0
    THEN {Outcome(Raise("ValueError"), particles)}
    ELSE IF Len(new_particles) > num_particles
         THEN {Outcome(Return(new_particles), particles)}
         ELSE UNION { ReinvLoop(Append(new_particles, ApplyTransform(f, particles[i])),
                                particles, num_particles, f)
                      : i \in 1..Len(particles) }

\* POMCP._particle_reinvigoration, lines 139-154: the outcomes of a call
particle_reinvigoration(particles, num_particles, f) ==
    LET new_particles == particles IN     \* copy.deepcopy(particles)
    IF Len(new_particles) = 0
    THEN {Outcome(Raise("ValueError"), particles)}
    ELSE IF Len(new_particles) > num_particles
         THEN {Outcome(Return(new_particles), particles)}
         ELSE ReinvLoop(new_particles, particles, num_particles, f)

\* ---- Init ----------------------------------------------------------------
\* the belief the agent is built with: 1..MaxInit particles, or not particles
InitBeliefs ==
    {Particles([i \in 1..n |-> IF i % 2 = 1 THEN 1 ELSE 2]) : n \in 1..MaxInit} \cup {Histogram}

Init ==
    /\ \E b \in InitBeliefs :
          /\ heap = (1 :> b)
          /\ init_belief = b
    /\ agent_belief = 1
    /\ agent_history = <<>>
    /\ has_tree = FALSE
    /\ tree = [p \in Paths |-> NoNode]
    /\ root_history = <<>>
    /\ pc = "idle"
    /\ sims = 0
    /\ real = <<>>
    /\ last = NoCall("init", "ok")
    /\ nodes = <<>>

\* ---- tree nodes ----------------------------------------------------------
\* mutant: a non-root node is given the agent's belief object itself
VNode_shared(h, agent, root) ==
    LET id == Alloc(h) IN
    IF root
    THEN [heap |-> Put(h, id, h[agent_belief]),
          node |-> [num_visits |-> num_visits_init, value |-> value_init, belief |-> id,
                    children |-> NoChildren]]
    ELSE [heap |-> h,
          node |-> [num_visits |-> num_visits_init, value |-> value_init,
                    belief |-> agent_belief, children |-> NoChildren]]

\* POMCP._VNode: the node and the heap holding its belief object
VNode(h, agent, root) ==
    LET id == Alloc(h) IN
    IF root
    THEN [heap |-> Put(h, id, h[agent_belief]),            \* copy.deepcopy(agent.belief)
          node |-> [num_visits |-> num_visits_init, value |-> value_init, belief |-> id,
                    children |-> NoChildren]]
    ELSE IF agent = None
         THEN [heap |-> Put(h, id, Particles(<<>>)),        \* Particles([])
               node |-> [num_visits |-> num_visits_init, value |-> value_init, belief |-> id,
                    children |-> NoChildren]]
         ELSE [heap |-> Put(h, id, h[agent_belief]),        \* copy.deepcopy(agent.belief)
               node |-> [num_visits |-> num_visits_init, value |-> value_init, belief |-> id,
                    children |-> NoChildren]]

\* POMCP._expand_vnode: the node gets an action node for every action
expand_vnode(node) == [node EXCEPT !.children = [a \in Actions |-> num_visits_init]]

\* mutant: the new root keeps the history of the root it replaces
from_vnode_old_history(t, step, history) ==
    [tree |-> [p \in Paths |-> IF Len(p) < max_depth THEN t[<<step>> \o p] ELSE NoNode],
     history |-> root_history]

\* mutant: line 51 is left out, the new root has no children
from_vnode_no_children(t, step, history) ==
    [tree |-> [p \in Paths |-> IF p = <<>> THEN [t[<<step>>] EXCEPT !.children = NoChildren]
                               ELSE NoNode],
     history |-> history]

\* RootVNodeParticles.from_vnode: the subtree under `step` becomes the tree; the
\* new root takes the node's num_visits, value, belief object and children
from_vnode(t, step, history) ==
    [tree |-> [p \in Paths |-> IF Len(p) < max_depth THEN t[<<step>> \o p] ELSE NoNode],
     history |-> history]

\* ---- plan ----------------------------------------------------------------
\* POMCP.plan, lines 86-88
plan_check(isParticles) == IF ~isParticles THEN "TypeError" ELSE "ok"

PlanStart ==
    /\ pc = "idle"
    /\ sims < MaxSims
    /\ LET res == plan_check(IsParticles(heap, agent_belief)) IN
       /\ last' = NoCall("plan", res)
       /\ IF res = "ok"
          THEN /\ pc' = "plan"
               /\ has_tree' = TRUE          \* POUCT.plan: agent.add_attr("tree", None)
          ELSE /\ pc' = "error"
               /\ UNCHANGED has_tree
    /\ UNCHANGED <<nodes, heap, agent_belief, init_belief, agent_history, tree, root_history,
                   sims, real>>

\* mutant: the depth is not compared, the root's hook deposits too
simulate_hook_any_depth(h, state, root, depth) ==
    IF root # NoNode
    THEN [h EXCEPT ![root.belief].particles = Append(@, state)]
    ELSE h

\* POMCP._simulate, lines 165-166, after POUCT._simulate returned
simulate_hook(h, state, root, depth) ==
    IF depth = 1 /\ root # NoNode
    THEN [h EXCEPT ![root.belief].particles = Append(@, state)]
    ELSE h

\* one trajectory: steps <<action, observation, next state>> from the root.
\* It descends while nodes exist and ends by creating the first missing node,
\* or, every node on it existing, at max_depth: there the node at max_depth
\* picks the action `alast`, and the call one level deeper returns 0 at once
\* (its hook runs at depth max_depth + 1 and deposits nothing).
TrajSteps == Actions \X Observations \X BaseStates
Trajs == UNION {[1..k -> TrajSteps] : k \in 1..max_depth}
PathOf(traj, d) == [j \in 1..d |-> <<traj[j][1], traj[j][2]>>]
\* the node handle _simulate gets at depth d
Handle(t, traj, d) == t[PathOf(traj, d)]

RECURSIVE HooksFrom(_, _, _, _, _)
HooksFrom(h, t, s0, traj, d) ==
    IF d > Len(traj)
    THEN h
    ELSE HooksFrom(simulate_hook(h, IF d = 0 THEN s0 ELSE traj[d][3], Handle(t, traj, d), d),
                   t, s0, traj, d + 1)

\* the first simulation of an agent without a tree builds the root
SimulateRoot ==
    /\ pc = "plan"
    /\ tree[<<>>] = NoNode
    /\ LET v == VNode(heap, "agent", TRUE)
           c == Collect(v.heap, [tree EXCEPT ![<<>>] = expand_vnode(v.node)],
                        agent_belief, 0, 0)
       IN
       /\ tree' = c.tree
       /\ heap' = c.heap
    /\ root_history' = agent_history
    /\ last' = NoCall("simulate", "ok")
    /\ UNCHANGED <<nodes, agent_belief, init_belief, agent_history, has_tree, pc, sims, real>>

\* one simulation from an existing root: count the visits, create the missing
\* node, run the hooks
Simulate ==
    /\ pc = "plan"
    /\ sims < MaxSims
    /\ tree[<<>>] # NoNode
    /\ \E traj \in Trajs, alast \in Actions :
       \E i0 \in 1..Len(heap[tree[<<>>].belief].particles) :     \* _sample_belief
         LET L == Len(traj)
             s0 == heap[tree[<<>>].belief].particles[i0]
             creates == tree[PathOf(traj, L)] = NoNode
             v == VNode(heap, None, FALSE)
             h1 == IF creates THEN v.heap ELSE heap
             t1 == [p \in Paths |->
                      IF Len(p) <= L /\ p = PathOf(traj, Len(p))
                      THEN IF tree[p] = NoNode
                           THEN expand_vnode(v.node)
                           ELSE [tree[p] EXCEPT
                                   !.num_visits = @ + 1,
                                   !.children[IF Len(p) < L THEN traj[Len(p) + 1][1]
                                              ELSE alast] = @ + 1]
                      ELSE tree[p]]
             h2 == HooksFrom(h1, tree, s0, traj, 0)
             c == Collect(h2, t1, agent_belief, 0, 0)
         IN
         /\ \A d \in 1..(L - 1) : tree[PathOf(traj, d)] # NoNode
         /\ creates \/ L = max_depth
         /\ tree' = c.tree
         /\ heap' = c.heap
         /\ last' = [NoCall("simulate", "ok") EXCEPT !.deposit = IF h2 = h1 THEN 0 ELSE 1,
                                                     !.traj = traj]
    /\ sims' = sims + 1
    /\ UNCHANGED <<nodes, agent_belief, init_belief, agent_history, has_tree, root_history,
                   pc, real>>

PlanReturn ==
    /\ pc = "plan"
    /\ tree[<<>>] # NoNode
    /\ pc' = "idle"
    /\ last' = NoCall("return", "ok")
    /\ UNCHANGED <<nodes, heap, agent_belief, init_belief, agent_history, has_tree, tree,
                   root_history, sims, real>>

\* ---- the real step and update --------------------------------------------
\* the caller executes an action, receives an observation, appends both to
\* the agent's history (update's docstring, lines 94-95)
ExecStep ==
    /\ pc = "idle"
    /\ Len(agent_history) < MaxRounds
    /\ \E a \in Actions, o \in Observations :
         /\ real' = <<a, o>>
         /\ agent_history' = Append(agent_history, <<a, o>>)
    /\ pc' = "acted"
    /\ last' = NoCall("step", "ok")
    /\ UNCHANGED <<nodes, heap, agent_belief, init_belief, has_tree, tree, root_history, sims>>

\* mutant: the None slot is not checked, from_vnode reads None.num_visits
update_check_no_marker(isParticles, hasTree, slot) ==
    IF ~isParticles THEN "TypeError"
    ELSE IF ~hasTree THEN "warning"
    ELSE IF slot = NoNode THEN "AttributeError"
    ELSE "ok"

\* mutant: the tree attribute is not checked, the lookup finds no node
update_check_no_hasattr(isParticles, hasTree, slot) ==
    IF ~isParticles THEN "TypeError"
    ELSE IF slot = NoNode THEN "ValueError"
    ELSE "ok"

\* mutant: the tree attribute is checked before the belief's representation
update_check_tree_first(isParticles, hasTree, slot) ==
    IF ~hasTree THEN "warning"
    ELSE IF ~isParticles THEN "TypeError"
    ELSE IF slot = NoNode THEN "ValueError"
    ELSE "ok"

\* POMCP.update, lines 100-109: the checks before any change
update_check(isParticles, hasTree, slot) ==
    IF ~isParticles THEN "TypeError"
    ELSE IF ~hasTree THEN "warning"
    ELSE IF slot = NoNode THEN "ValueError"
    ELSE "ok"

\* Agent.set_belief: the agent's belief becomes a value copy of `id`
set_belief(h, id) ==
    LET c == Alloc(h) IN [heap |-> Put(h, c, h[id]), belief |-> c]

\* mutant: agent.tree.belief = agent.belief, without the copy
install_root_belief_shared(h, t, ab, history) ==
    [heap |-> h, tree |-> [t EXCEPT ![<<>>].belief = ab], history |-> history,
     branch |-> "copy"]

\* mutant: the test of line 120 is inverted
install_root_belief_inverted(h, t, ab, history) ==
    LET c == Alloc(h) IN
    IF t[<<>>] # NoNode
    THEN [heap |-> Put(h, c, [kind |-> "tuple", particles |-> agent_history]),
          tree |-> [t EXCEPT ![<<>>] = expand_vnode([num_visits |-> num_visits_init,
                                                     value |-> value_init, belief |-> c,
                                                     children |-> NoChildren])],
          history |-> h[ab],
          branch |-> "fresh"]
    ELSE [heap |-> Put(h, c, h[ab]),
          tree |-> [t EXCEPT ![<<>>].belief = c],
          history |-> history,
          branch |-> "copy"]

\* POMCP.update, lines 120-129: the new root's belief after set_belief
install_root_belief(h, t, ab, history) ==
    LET c == Alloc(h) IN
    IF t[<<>>] = NoNode
    THEN \* lines 122-125: RootVNodeParticles(num_visits, value, history, belief) is
         \* called with copy.deepcopy(agent.belief) third and agent.history fourth
         \* and line 127 expands the new root
         [heap |-> Put(h, c, [kind |-> "tuple", particles |-> agent_history]),
          tree |-> [t EXCEPT ![<<>>] = expand_vnode([num_visits |-> num_visits_init,
                                                     value |-> value_init, belief |-> c,
                                                     children |-> NoChildren])],
          history |-> h[ab],
          branch |-> "fresh"]
    ELSE \* line 129: agent.tree.belief = copy.deepcopy(agent.belief)
         [heap |-> Put(h, c, h[ab]),
          tree |-> [t EXCEPT ![<<>>].belief = c],
          history |-> history,
          branch |-> "copy"]

Update ==
    /\ pc = "acted"
    /\ \E f \in Transforms :
       LET slot == IF has_tree THEN tree[<<real>>] ELSE NoNode
           res == update_check(IsParticles(heap, agent_belief), has_tree, slot)
       IN
       IF res # "ok"
       THEN /\ last' = [NoCall("update", res)
                          EXCEPT !.f = f, !.prehistory = root_history,
                                 !.pretree = IF res = "ValueError"
                                             THEN Snapshot(heap, tree) ELSE @,
                                 !.prebelief = IF res = "ValueError"
                                               THEN heap[agent_belief].particles ELSE @]
            /\ pc' = IF res = "warning" THEN "idle" ELSE "error"
            /\ sims' = IF res = "warning" THEN 0 ELSE sims
            /\ UNCHANGED <<heap, agent_belief, tree, root_history>>
       ELSE LET fv == from_vnode(tree, real, agent_history)       \* line 112
                tree_belief == fv.tree[<<>>].belief               \* line 114
                num == Len(init_belief.particles)                 \* line 118
            IN
            \E r \in particle_reinvigoration(heap[tree_belief].particles, num, f) :
              LET call == [NoCall("update", IF r.err = None THEN "ok" ELSE r.err)
                             EXCEPT !.particles = heap[tree_belief].particles,
                                    !.num = num, !.f = f, !.out = r.out,
                                    !.input = r.input, !.subnode = NodeStats(slot),
                                    !.sub = slot.belief, !.prehistory = root_history]
              IN
              IF r.err # None
              THEN \* the reinvigorator raised after line 112 replaced the tree
                   LET h0 == [heap EXCEPT ![tree_belief].particles = r.input]
                       c == Collect(h0, fv.tree, agent_belief, slot.belief, 0)
                   IN
                   /\ tree' = c.tree
                   /\ root_history' = fv.history
                   /\ heap' = c.heap
                   /\ last' = [call EXCEPT !.sub = c.sub,
                                            !.pretree = Snapshot(heap, tree),
                                            !.prebelief = heap[agent_belief].particles]
                   /\ pc' = "error"
                   /\ UNCHANGED <<agent_belief, sims>>
              ELSE LET h0 == [heap EXCEPT ![tree_belief].particles = r.input]
                       buffer == Alloc(h0)      \* new_particles, line 139
                       h1 == Put(h0, buffer, Particles(r.out))
                       sb == set_belief(h1, buffer)                \* line 115
                       ib == install_root_belief(sb.heap, fv.tree, sb.belief, fv.history)
                       c == Collect(ib.heap, ib.tree, sb.belief, slot.belief, buffer)
                   IN
                   /\ agent_belief' = c.belief
                   /\ tree' = c.tree
                   /\ root_history' = ib.history
                   /\ heap' = c.heap
                   /\ last' = [call EXCEPT !.sub = c.sub, !.buffer = c.buffer,
                                            !.branch = ib.branch]
                   /\ pc' = "idle"
                   /\ sims' = 0
    /\ UNCHANGED <<nodes, init_belief, agent_history, has_tree, real>>

Next ==
    \/ PlanStart
    \/ SimulateRoot
    \/ Simulate
    \/ PlanReturn
    \/ ExecStep
    \/ Update

Spec == Init /\ [][Next]_vars

\* a direct call of the reinvigorator on a belief of the caller's choice
ReinvCall ==
    \E particles \in SeqsUpTo(BaseStates, MaxLen), num \in 1..MaxTarget, f \in Transforms :
      \E r \in particle_reinvigoration(particles, num, f) :
        /\ last' = [NoCall("reinvigorate", IF r.err = None THEN "ok" ELSE r.err)
                      EXCEPT !.particles = particles, !.num = num, !.f = f, !.out = r.out,
                             !.input = r.input]
        /\ UNCHANGED <<nodes, heap, agent_belief, init_belief, agent_history, has_tree, tree,
                       root_history, pc, sims, real>>

\* the reinvigorator called on a nonempty belief, and again on what it returned
ReinvTwice ==
    \E particles \in SeqsUpTo(BaseStates, MaxLen) \ {<<>>}, num \in 1..MaxTarget,
       f \in Transforms :
      \E r1 \in particle_reinvigoration(particles, num, f) :
        \E r2 \in particle_reinvigoration(r1.out, num, f) :
          /\ r1.err = None
          /\ last' = [NoCall("reinvigorate2", "ok")
                        EXCEPT !.particles = particles, !.num = num, !.f = f,
                               !.out = r1.out, !.input = r1.input,
                               !.result2 = IF r2.err = None THEN "ok" ELSE r2.err,
                               !.out2 = r2.out]
          /\ UNCHANGED <<nodes, heap, agent_belief, init_belief, agent_history, has_tree, tree,
                         root_history, pc, sims, real>>

NextReinv ==
    \/ ReinvCall
    \/ ReinvTwice

SpecReinv == Init /\ [][NextReinv]_vars

\* ---- the node classes called directly ------------------------------------
\* `belief=Particles([])` in a def line is evaluated once, when the class body
\* runs: each of the two __init__ has one default object for all its calls.
VNodeParticles_default == 2         \* the object of line 33
RootVNodeParticles_default == 3     \* the object of line 45

\* VNodeParticles.__init__, lines 34-37: self.belief = belief
VNodeParticles(num_visits, value, belief) ==
    [num_visits |-> num_visits, value |-> value, belief |-> belief, children |-> NoChildren]

\* RootVNodeParticles.__init__, lines 46-47: passes belief on, keeps the history
RootVNodeParticles(num_visits, value, history, belief) ==
    [node |-> VNodeParticles(num_visits, value, belief), history |-> history]

InitCtor ==
    /\ \E b \in InitBeliefs \ {Histogram} :
          /\ heap = (1 :> b) @@ (VNodeParticles_default :> Particles(<<>>))
                            @@ (RootVNodeParticles_default :> Particles(<<>>))
          /\ init_belief = b
    /\ agent_belief = 1
    /\ agent_history = <<>>
    /\ has_tree = FALSE
    /\ tree = [p \in Paths |-> NoNode]
    /\ root_history = <<>>
    /\ pc = "idle"
    /\ sims = 0
    /\ real = <<>>
    /\ last = NoCall("init", "ok")
    /\ nodes = <<>>

\* VNodeParticles(num_visits, value) or VNodeParticles(num_visits, value, Particles([]))
NewVNodeParticles ==
    /\ Len(nodes) < MaxNodes
    /\ \E explicit \in BOOLEAN :
         LET id == Alloc(heap) IN
         IF explicit
         THEN /\ heap' = Put(heap, id, Particles(<<>>))
              /\ nodes' = Append(nodes, VNodeParticles(num_visits_init, value_init, id))
         ELSE /\ heap' = heap
              /\ nodes' = Append(nodes, VNodeParticles(num_visits_init, value_init,
                                                       VNodeParticles_default))
    /\ last' = NoCall("VNodeParticles", "ok")
    /\ UNCHANGED <<agent_belief, init_belief, agent_history, has_tree, tree, root_history,
                   pc, sims, real>>

\* RootVNodeParticles(num_visits, value, history), with or without a belief
NewRootVNodeParticles ==
    /\ Len(nodes) < MaxNodes
    /\ \E explicit \in BOOLEAN :
         LET id == Alloc(heap) IN
         IF explicit
         THEN /\ heap' = Put(heap, id, Particles(<<>>))
              /\ nodes' = Append(nodes, RootVNodeParticles(num_visits_init, value_init,
                                                           agent_history, id).node)
         ELSE /\ heap' = heap
              /\ nodes' = Append(nodes, RootVNodeParticles(num_visits_init, value_init,
                                          agent_history, RootVNodeParticles_default).node)
    /\ last' = NoCall("RootVNodeParticles", "ok")
    /\ UNCHANGED <<agent_belief, init_belief, agent_history, has_tree, tree, root_history,
                   pc, sims, real>>

\* planner._VNode(agent, root), the hook the engine builds nodes with
NewHookNode ==
    /\ Len(nodes) < MaxNodes
    /\ \E agent \in {None, "agent"}, root \in BOOLEAN :
         LET v == VNode(heap, agent, root) IN
         /\ heap' = v.heap
         /\ nodes' = Append(nodes, v.node)
    /\ last' = NoCall("_VNode", "ok")
    /\ UNCHANGED <<agent_belief, init_belief, agent_history, has_tree, tree, root_history,
                   pc, sims, real>>

\* node.belief.add(state) on one of the nodes
AddParticle ==
    /\ \E i \in 1..Len(nodes), state \in BaseStates :
         /\ Len(heap[nodes[i].belief].particles) < MaxAdd
         /\ heap' = [heap EXCEPT ![nodes[i].belief].particles = Append(@, state)]
    /\ last' = NoCall("add", "ok")
    /\ UNCHANGED <<agent_belief, init_belief, agent_history, has_tree, tree, root_history,
                   pc, sims, real, nodes>>

NextCtor ==
    \/ NewVNodeParticles
    \/ NewRootVNodeParticles
    \/ NewHookNode
    \/ AddParticle

SpecCtor == InitCtor /\ [][NextCtor]_vars

\* ---- properties ----------------------------------------------------------
UpdateOk == last.op = "update" /\ last.result = "ok"
RootBelief == heap[tree[<<>>].belief].particles
AgentBelief == heap[agent_belief].particles
Target == Len(init_belief.particles)
Max(a, b) == IF a >= b THEN a ELSE b
Reinvigorated == last.op = "reinvigorate"

\* C1 (as stated): after every successful update the new root's belief has
\* exactly the target number of particles, also when the promoted subtree had
\* gathered more than the target.
C1_RootSizeIsTarget ==
    UpdateOk => Len(RootBelief) = Target

\* C1 (amended): after every successful update the new root's belief has the
\* target number of particles when the promoted subtree held at most that many,
\* and the subtree's own, larger number otherwise.
C1_RootSizeIsMaxOfTargetAndSubtree ==
    UpdateOk => Len(RootBelief) = Max(Target, Len(last.particles))

C1_Witness_OverTarget ==
    UpdateOk /\ Len(last.particles) > Target

\* C2: after every successful update, the caller having appended the real
\* (action, observation), the new root's history is the old root's history
\* with that pair appended, and is the agent's history.
C2_RootHistoryExtended ==
    UpdateOk => /\ root_history = Append(last.prehistory, real)
                /\ root_history = agent_history

C2_Witness_SecondRound ==
    UpdateOk /\ Len(last.prehistory) = 1 /\ Len(root_history) = 2

C4_NeverSimulatedRaises ==
    [][ ( /\ pc = "acted"
          /\ IsParticles(heap, agent_belief)
          /\ has_tree
          /\ tree[<<real>>] = NoNode
          /\ last'.op = "update" )
        => (last'.result = "ValueError" /\ pc' = "error") ]_vars

C4_Witness_MarkerSlot ==
    /\ last.op = "update" /\ last.result = "ValueError"
    /\ last.sub = 0 /\ has_tree /\ tree[<<real>>] = NoNode

C6_FillsFromOriginals ==
    (Reinvigorated /\ 0 < Len(last.particles) /\ Len(last.particles) < last.num)
    => /\ last.result = "ok"
       /\ Len(last.out) = last.num
       /\ SubSeq(last.out, 1, Len(last.particles)) = last.particles
       /\ \A i \in (Len(last.particles) + 1)..last.num :
            \E j \in 1..Len(last.particles) :
               last.out[i] = ApplyTransform(last.f, last.particles[j])

C6_Witness_TwoSynthesized ==
    /\ Reinvigorated /\ last.result = "ok" /\ last.f = "jitter"
    /\ Len(last.particles) > 0 /\ Len(last.out) >= Len(last.particles) + 2

\* C7: for a belief of size >= N the reinvigorator returns the belief as it
\* is: nothing added, nothing removed, nothing transformed.
C7_AtTargetUnchanged ==
    (Reinvigorated /\ Len(last.particles) >= last.num)
    => (last.result = "ok" /\ last.out = last.particles)

C7_Witness_ExactlyTarget ==
    /\ Reinvigorated /\ last.result = "ok" /\ last.f = "jitter"
    /\ Len(last.particles) = last.num

\* C8: the reinvigorator called with an empty belief raises the
\* particle-deprivation ValueError, for every target N > 0.
C8_EmptyRaises ==
    (Reinvigorated /\ last.particles = <<>> /\ last.num > 0)
    => (last.result = "ValueError" /\ last.out = <<>>)

C8_Witness_Empty ==
    Reinvigorated /\ last.particles = <<>> /\ last.num = MaxTarget

\* C9: with a belief that is not particles, plan and update raise TypeError
\* and change nothing; in update this comes before the missing-tree check.
C9_MismatchRaisesFirst ==
    [][ ( /\ ~IsParticles(heap, agent_belief)
          /\ last'.op \in {"plan", "update"} )
        => ( /\ last'.result = "TypeError"
             /\ pc' = "error"
             /\ UNCHANGED <<heap, agent_belief, agent_history, has_tree, tree,
                            root_history, sims>> ) ]_vars

C9_Witness_UpdateNoTree ==
    /\ last.op = "update" /\ last.result = "TypeError"
    /\ ~has_tree /\ ~IsParticles(heap, agent_belief)

\* C10: no step of plan changes the agent's belief, and the agent's belief
\* changes only in a step that is a completed update.
C10_PlanKeepsAgentBelief ==
    [][ /\ (last'.op \in {"plan", "simulate", "return"})
           => (agent_belief' = agent_belief /\ heap'[agent_belief'] = heap[agent_belief])
        /\ (heap'[agent_belief'] # heap[agent_belief])
           => (last'.op = "update" /\ last'.result = "ok") ]_vars

C10_Witness_Deposit ==
    /\ pc = "plan" /\ last.op = "simulate" /\ last.deposit = 1
    /\ \E p \in Paths : /\ Len(p) = 1 /\ tree[p] # NoNode
                        /\ Len(heap[tree[p].belief].particles) > 0
                        /\ tree[p].belief # agent_belief

\* C11: reinvigorating the result of a reinvigoration, with the same target,
\* returns it as it is: for a belief of size >= N and for every nonempty
\* belief the second call succeeds and adds, removes and changes nothing.
C11_SecondCallAddsNothing ==
    (last.op = "reinvigorate2")
    => (last.result2 = "ok" /\ last.out2 = last.out)

C11_Witness_AfterSynthesis ==
    /\ last.op = "reinvigorate2" /\ last.f = "jitter"
    /\ Len(last.particles) < last.num /\ Len(last.out) = last.num

\* C14: the reinvigorator leaves the belief it is given as it was, whether it
\* raises, returns the copy or synthesizes particles, also with a transform
\* that changes the state it is handed.
C14_InputUnchanged ==
    (last.op \in {"reinvigorate", "reinvigorate2"}) => last.input = last.particles

C14_Witness_TransformedOne ==
    /\ Reinvigorated /\ last.f = "jitter" /\ last.result = "ok"
    /\ Len(last.out) = Len(last.particles) + 1
    /\ last.input = last.particles

\* C12: a simulation appends the state reached by its first step to the belief
\* of the depth-1 node of its trajectory exactly when that node existed before
\* the simulation; the root's belief (depth 0), every other node's belief and
\* the agent's belief keep their particles, a node the simulation creates has
\* an empty belief, and entering and leaving plan changes no belief.
C12_DepositOnlyAtDepthOne ==
    [][ /\ (last'.op = "simulate" /\ tree[<<>>] # NoNode)
           => /\ \A p \in Paths :
                   tree[p] # NoNode
                   => /\ tree'[p] # NoNode
                      /\ heap'[tree'[p].belief].particles
                           = IF Len(p) = 1 /\ p = PathOf(last'.traj, 1)
                             THEN Append(heap[tree[p].belief].particles, last'.traj[1][3])
                             ELSE heap[tree[p].belief].particles
              /\ \A p \in Paths :
                   (tree[p] = NoNode /\ tree'[p] # NoNode)
                   => heap'[tree'[p].belief].particles = <<>>
              /\ heap'[agent_belief'] = heap[agent_belief]
        /\ (last'.op \in {"plan", "return"}) => (heap' = heap /\ tree' = tree) ]_vars

C12_Witness_DepositBesideEmpty ==
    /\ last.op = "simulate" /\ last.deposit = 1
    /\ heap[tree[PathOf(last.traj, 1)].belief].particles = <<last.traj[1][3]>>
    /\ \E p \in Paths : Len(p) = 1 /\ tree[p] # NoNode
                        /\ heap[tree[p].belief].particles = <<>>

\* C13: after every successful update the agent's belief and the new root's
\* belief each hold at least the target number of particles and at least as
\* many as the promoted subtree's belief held before the update; and no step
\* of plan makes the belief of a node smaller.
C13_NeverDownsamples ==
    /\ [](UpdateOk => /\ Len(AgentBelief) >= Target
                      /\ Len(AgentBelief) >= Len(last.particles)
                      /\ Len(RootBelief) >= Target
                      /\ Len(RootBelief) >= Len(last.particles))
    /\ [][ (last'.op \in {"plan", "simulate", "return"})
           => \A p \in Paths :
                tree[p] # NoNode
                => /\ tree'[p] # NoNode
                   /\ Len(heap'[tree'[p].belief].particles)
                        >= Len(heap[tree[p].belief].particles) ]_vars

C13_Witness_KeptLarger ==
    /\ UpdateOk /\ Len(last.particles) > Target
    /\ Len(AgentBelief) = Len(last.particles) /\ Len(RootBelief) = Len(last.particles)

\* C15: the root from_vnode returns has the promoted node's num_visits, value,
\* belief object and children and the new history: seen as it is when the
\* reinvigorator raises right after the transplant, and, after a successful
\* update, with the belief replaced; no node of the old root's other subtrees
\* is in the tree afterwards.
C15_RootIsPromotedNode ==
    /\ UpdateOk
       => /\ NodeStats(tree[<<>>]) = last.subnode
          /\ \A p \in Paths : Len(p) >= 1 => tree[p] = NoNode
          /\ DOMAIN heap = {agent_belief, tree[<<>>].belief}
    /\ (last.op = "update" /\ last.result = "ValueError" /\ last.sub # 0)
       => /\ NodeStats(tree[<<>>]) = last.subnode
          /\ tree[<<>>].belief = last.sub
          /\ root_history = agent_history
          /\ \A p \in Paths : Len(p) >= 1 => tree[p] = NoNode

C15_Witness_RevisitedNode ==
    /\ UpdateOk /\ last.subnode.num_visits > num_visits_init
    /\ \E a \in Actions : tree[<<>>].children[a] > num_visits_init

\* C16: no update takes the branch of lines 121-127 that builds a fresh root:
\* an update that gets past the None check finds agent.tree set after the
\* transplant and installs the root's belief by the copy of line 129.
C16_FreshRootNeverBuilt ==
    /\ (last.op = "update") => last.branch # "fresh"
    /\ UpdateOk => (last.branch = "copy" /\ tree[<<>>] # NoNode)

C16_Witness_CopyBranch ==
    UpdateOk /\ last.branch = "copy" /\ Len(agent_history) = 1 /\ last.f = None

\* C17: whenever update raises the particle-deprivation ValueError, the tree
\* (every node's statistics and particles, and the root's history), the
\* agent's belief and the agent's history are what they were before the call.
C17_DeprivationLeavesStateUnchanged ==
    (last.op = "update" /\ last.result = "ValueError")
    => /\ Snapshot(heap, tree) = last.pretree
       /\ root_history = last.prehistory
       /\ AgentBelief = last.prebelief

\* C18: no two nodes share one belief object: whichever way two nodes were
\* built (a node class called without a belief argument, or with one, or the
\* planner's _VNode hook), their beliefs are different objects.
C18_NoSharedBeliefObject ==
    \A i, j \in 1..Len(nodes) : i # j => nodes[i].belief # nodes[j].belief
====
